---- MODULE Spec2Model ----
(***************************************************************************)
(* TrialTalk: the tool server's upstream API client (lazy pooled client,   *)
(* bounded retry on transport faults), the agent's conversation memory     *)
(* (bounded per-session history) and the search tool's parameter building. *)
(*                                                                         *)
(*   Spec        ClinicalTrialsAPIClient: get calls of cooperative tasks   *)
(*   MemSpec     ConversationManager driven by agent queries               *)
(*   SearchSpec  search_clinical_trials -> search_studies parameters       *)
(***************************************************************************)
EXTENDS Integers, Sequences, FiniteSets, TLC

(***************************************************************************)
(* Bounds of the model.                                                    *)
(***************************************************************************)
\* the largest value of get's retries parameter that is tried
MaxRetries == 3
\* get calls started in one behaviour
MaxCalls == 3
\* the largest configured conversation_memory_window that is tried
MaxWindow == 2
\* agent queries submitted in one behaviour
MaxQueries == 3
\* agent queries submitted in one behaviour of the session endpoints
MaxSessQueries == 2
\* agent queries submitted in one behaviour of agent.query
MaxAgentQueries == 2
\* callback events held at one time by the queries in flight
MaxEvents == 2
\* streamed queries submitted in one behaviour
MaxStreams == 2
\* events yielded by one streamed query
MaxStreamEvents == 3
\* calls of the rate limiter's on_tool_call in one run
MaxToolCalls == 4
\* the largest configured rate limit
MaxLimit == 2

\* config.py: conversation_memory_window: int = 10
DefaultWindow == 10
\* studies_search.py: page_size: int = 10
DefaultPageSize == 10
\* config.py: rate_limit_requests_per_minute
DefaultLimit == 60

\* prompts submitted in the chat page, and uuid4 values it draws
MaxUiQueries == 4
MaxUuids == 4

\* concurrent get calls started in one behaviour, and their retries
MaxConcCalls == 2
MaxConcRetries == 2

\* asyncio tasks that call into the shared api_client
Tasks == {"t1", "t2"}

(***************************************************************************)
(* Python values.                                                          *)
(***************************************************************************)
\* Optional[T]: None is the empty tuple, a present value x is <<x>>
None == << >>
Some(x) == << x >>

(***************************************************************************)
(* Upstream outcomes of one awaited self.client.get(...) followed by       *)
(* raise_for_status() and the body decoding.                               *)
(***************************************************************************)
\* content-type headers of a 2xx response ("" when the header is missing)
JsonCTypes == {"application/json", "application/json; charset=utf-8"}
OtherCTypes == {"text/csv", ""}
CTypes == JsonCTypes \cup OtherCTypes

\* the exception classes an attempt can end in
TransportFaultKinds == {"ReadError", "RemoteProtocolError", "WriteError"}
\* httpx.RequestError subclasses other than the three above
OtherRequestErrorKinds == {"ConnectError", "ReadTimeout"}
\* raise_for_status() on a 4xx/5xx response
StatusErrorKinds == {"HTTPStatusError"}
\* anything else, e.g. response.json() on a malformed body
UnexpectedKinds == {"JSONDecodeError"}
ErrorKinds ==
    TransportFaultKinds \cup OtherRequestErrorKinds \cup StatusErrorKinds
        \cup UnexpectedKinds

Outcomes ==
    {[kind |-> "OK", ctype |-> c] : c \in CTypes}
        \cup {[kind |-> k, ctype |-> ""] : k \in ErrorKinds}

\* what an attempt ended in, as the upstream side sees it
OutcomeClass(kind) ==
    IF kind \in TransportFaultKinds THEN "fault"
    ELSE IF kind = "OK" THEN "ok"
    ELSE IF kind \in StatusErrorKinds THEN "status"
    ELSE "other"

\* isinstance(e, httpx.RequestError)
IsRequestError(kind) == kind \in TransportFaultKinds \cup OtherRequestErrorKinds

(***************************************************************************)
(* ClinicalTrialsAPIClient.                                                *)
(***************************************************************************)
VARIABLES
    client,       \* self._client: None or Some(id of an httpx.AsyncClient)
    constructed,  \* number of AsyncClient objects constructed; ids 1..constructed
    closed,       \* ids of the clients whose is_closed is true
    task,         \* per task: the frame of its get call
    faulted,      \* history: ids of the clients a transport fault occurred on
    calls,        \* history: number of get calls started
    requests,     \* history: number of upstream requests issued
    overlap       \* history: some get call started while another was running

apiVars == <<client, constructed, closed, task, faulted, calls, requests, overlap>>

IdleFrame ==
    [pc |-> "idle", retries |-> 0, attempt |-> 0, last_error |-> None,
     exc |-> None, on |-> 0, result |-> None, reqs |-> << >>,
     resps |-> << >>, last |-> None, swallowed |-> FALSE]

\* a client property that caches nothing
NeedsNewClientAlways(cl, cls) == TRUE

\* line 27: if self._client is None or self._client.is_closed
NeedsNewClient(cl, cls) == cl = None \/ cl[1] \in cls

\* a retry that starts over at the first attempt
IssueRestart(cl, cons, cls, fr, a) ==
    LET fresh == cl = None \/ cl[1] \in cls
        id == IF fresh THEN cons + 1 ELSE cl[1]
    IN  [client |-> Some(id),
         constructed |-> IF fresh THEN cons + 1 ELSE cons,
         frame |-> [fr EXCEPT !.pc = "request", !.attempt = 0, !.on = id,
                              !.reqs = Append(@, id)]]

\* the client property (lines 24-41) followed by the start of .get() on it
\* (line 78): the frame waits for the response of attempt a
Issue(cl, cons, cls, fr, a) ==
    LET fresh == NeedsNewClient(cl, cls)
        id == IF fresh THEN cons + 1 ELSE cl[1]
    IN  [client |-> Some(id),
         constructed |-> IF fresh THEN cons + 1 ELSE cons,
         frame |-> [fr EXCEPT !.pc = "request", !.attempt = a, !.on = id,
                              !.reqs = Append(@, id)]]

\* a first clause that also catches HTTPStatusError
HandlerRetryStatus(kind) ==
    IF kind \in {"ReadError", "RemoteProtocolError", "WriteError", "HTTPStatusError"}
    THEN "retry"
    ELSE IF IsRequestError(kind) THEN "raise_request"
    ELSE "raise_unexpected"

\* a first clause that catches every httpx.RequestError
HandlerRetryRequestError(kind) ==
    IF IsRequestError(kind) THEN "retry"
    ELSE IF kind = "HTTPStatusError" THEN "raise_status"
    ELSE "raise_unexpected"

\* the except clauses of get in source order (lines 88, 96, 99, 102): the
\* first clause whose classes match the exception handles it
Handler(kind) ==
    IF kind \in {"ReadError", "RemoteProtocolError", "WriteError"} THEN "retry"
    ELSE IF kind = "HTTPStatusError" THEN "raise_status"
    ELSE IF IsRequestError(kind) THEN "raise_request"
    ELSE "raise_unexpected"

\* lines 82-86: the value get returns for a 2xx response of attempt a
\* (the body of the response to request number n is n)
ShapeResponse(ctype, body) ==
    IF ctype \in JsonCTypes
    THEN [type |-> "return", shape |-> "json", body |-> body, ctype |-> ""]
    ELSE [type |-> "return", shape |-> "wrapped", body |-> body, ctype |-> ctype]

\* falling off the end of get (after line 107 with last_error None)
ReturnNone == [type |-> "return", shape |-> "None", body |-> 0, ctype |-> ""]

Raise(e) == [type |-> "raise", kind |-> e.kind, attempt |-> e.attempt]

\* giving up one attempt early
LastAttemptEarly(attempt, retries) == attempt >= retries - 2

\* line 93: if attempt == retries - 1
LastAttempt(attempt, retries) == attempt = retries - 1

\* surfacing a generic error once the retries are used up
ReraiseGeneric(e) == Raise([kind |-> "RuntimeError", attempt |-> e.attempt])

\* line 94: the bare raise re-raises the exception being handled
Reraise(e) == Raise(e)

\* the inverted test
AcloseGuardInverted(cl) == cl = None

\* line 45: if self._client
AcloseGuard(cl) == cl # None

\* lines 93-95 and, when range(retries) runs out, 106-107
AfterAclose(cl, cons, cls, fr) ==
    IF LastAttempt(fr.attempt, fr.retries)
    THEN [client |-> cl, constructed |-> cons,
          frame |-> [fr EXCEPT !.pc = "done", !.result = Some(Reraise(fr.exc[1]))]]
    ELSE IF fr.attempt + 1 < fr.retries
    THEN Issue(cl, cons, cls, fr, fr.attempt + 1)
    ELSE [client |-> cl, constructed |-> cons,
          frame |-> [fr EXCEPT !.pc = "done",
                               !.result = IF fr.last_error # None
                                          THEN Some(Raise(fr.last_error[1]))
                                          ELSE Some(ReturnNone)]]

Running(t) == task[t].pc \in {"request", "closing"}

\* the upstream requests a step of task t issued
Issued(t) == Len(task'[t].reqs) - Len(task[t].reqs)

\* get is called (lines 52-78): up to the first suspension
StartGet(t, n) ==
    /\ task[t].pc = "idle"
    /\ calls < MaxCalls
    /\ calls' = calls + 1
    /\ overlap' = (overlap \/ \E u \in Tasks \ {t} : Running(u))
    /\ LET fr == [IdleFrame EXCEPT !.retries = n]
       IN  IF n > 0
           THEN LET nx == Issue(client, constructed, closed, fr, 0)
                IN  /\ client' = nx.client
                    /\ constructed' = nx.constructed
                    /\ task' = [task EXCEPT ![t] = nx.frame]
           ELSE /\ task' = [task EXCEPT ![t] =
                                [fr EXCEPT !.pc = "done", !.result = Some(ReturnNone)]]
                /\ UNCHANGED <<client, constructed>>
    /\ requests' = requests + Issued(t)
    /\ UNCHANGED <<closed, faulted>>

\* the awaited request of task t ends with outcome o (lines 78-104), up to
\* the next suspension
Response(t, o) ==
    /\ task[t].pc = "request"
    /\ LET fr0 == task[t]
           e == [kind |-> o.kind, attempt |-> fr0.attempt + 1]
           fr == [fr0 EXCEPT !.resps = Append(@, OutcomeClass(o.kind)),
                             !.last = Some(o)]
       IN  IF o.kind = "OK"
           THEN /\ task' = [task EXCEPT ![t] =
                                [fr EXCEPT !.pc = "done",
                                           !.result = Some(ShapeResponse(o.ctype,
                                                              fr0.attempt + 1))]]
                /\ UNCHANGED <<client, constructed, closed, faulted>>
           ELSE IF Handler(o.kind) = "retry"
           THEN LET fr1 == [fr EXCEPT !.last_error = Some(e), !.exc = Some(e)]
                IN  /\ faulted' = faulted \cup {fr0.on}
                    /\ IF AcloseGuard(client)
                       THEN \* line 47: AsyncClient.aclose() marks the client
                            \* closed and suspends on the transport's close
                            /\ closed' = closed \cup {client[1]}
                            /\ task' = [task EXCEPT ![t] =
                                            [fr1 EXCEPT !.pc = "closing",
                                                        !.on = client[1]]]
                            /\ UNCHANGED <<client, constructed>>
                       ELSE LET nx == AfterAclose(client, constructed, closed, fr1)
                            IN  /\ client' = nx.client
                                /\ constructed' = nx.constructed
                                /\ task' = [task EXCEPT ![t] = nx.frame]
                                /\ UNCHANGED closed
           ELSE /\ task' = [task EXCEPT ![t] =
                                [fr EXCEPT !.pc = "done", !.exc = Some(e),
                                           !.result = Some(Raise(e))]]
                /\ UNCHANGED <<client, constructed, closed, faulted>>
    /\ requests' = requests + Issued(t)
    /\ UNCHANGED <<calls, overlap>>

\* an aclose without the try/except: the error of the close leaves get
AcloseDonePropagating(t, raised) ==
    /\ task[t].pc = "closing"
    /\ IF raised
       THEN /\ task' = [task EXCEPT ![t] =
                           [@ EXCEPT !.pc = "done",
                                     !.result = Some(Raise([kind |-> "CloseError",
                                                            attempt |-> task[t].attempt + 1]))]]
            /\ UNCHANGED <<client, constructed>>
       ELSE LET nx == AfterAclose(None, constructed, closed, task[t])
            IN  /\ client' = nx.client
                /\ constructed' = nx.constructed
                /\ task' = [task EXCEPT ![t] = nx.frame]
    /\ requests' = requests + Issued(t)
    /\ UNCHANGED <<closed, faulted, calls, overlap>>

\* the awaited self._client.aclose() of task t ends, normally or by raising
\* (lines 47-50), then get goes on (lines 93-95) up to the next suspension
AcloseDone(t, raised) ==
    /\ task[t].pc = "closing"
    /\ LET fr == [task[t] EXCEPT !.swallowed = (@ \/ raised)]
           nx == AfterAclose(None, constructed, closed, fr)
       IN  /\ client' = nx.client
           /\ constructed' = nx.constructed
           /\ task' = [task EXCEPT ![t] = nx.frame]
    /\ requests' = requests + Issued(t)
    /\ UNCHANGED <<closed, faulted, calls, overlap>>

\* the caller of get takes the value or the exception; the frame is gone
Return(t) ==
    /\ task[t].pc = "done"
    /\ task' = [task EXCEPT ![t] = IdleFrame]
    /\ UNCHANGED <<client, constructed, closed, faulted, calls, requests, overlap>>

\* a get call made while no other get call is running
SeqStartGet(t, n) ==
    /\ \A u \in Tasks : task[u].pc = "idle"
    /\ StartGet(t, n)

ApiInit ==
    /\ client = None
    /\ constructed = 0
    /\ closed = {}
    /\ task = [t \in Tasks |-> IdleFrame]
    /\ faulted = {}
    /\ calls = 0
    /\ requests = 0
    /\ overlap = FALSE

(***************************************************************************)
(* Conversation memory (memory/conversation_manager.py) as the agent's     *)
(* query and the session endpoints drive it.                               *)
(***************************************************************************)
VARIABLES
    window,    \* settings.conversation_memory_window
    sessions,  \* ConversationManager.sessions: session id -> InMemoryChatHistory
    inflight,  \* the agent queries suspended in ainvoke: [q, sid]
    nq,        \* history: number of queries submitted
    added      \* history: per session id, the messages added to it since it
               \* was last created or cleared, in the order they were added

memVars == <<window, sessions, inflight, nq, added>>

SessionIds == {"s1", "s2"}

HumanMessage(q) == [role |-> "user", q |-> q]
AIMessage(q) == [role |-> "assistant", q |-> q]

\* Python's xs[i:] for an integer i
PySliceFrom(xs, i) ==
    LET start == IF i < 0
                 THEN (IF Len(xs) + i > 0 THEN Len(xs) + i ELSE 0)
                 ELSE (IF i < Len(xs) THEN i ELSE Len(xs))
    IN  SubSeq(xs, start + 1, Len(xs))

\* a truncation that keeps the oldest messages: messages[:max_messages]
TruncateHead(msgs, max) == SubSeq(msgs, 1, IF max < Len(msgs) THEN max ELSE Len(msgs))

\* line 31: self.messages[-self.max_messages:]
Truncate(msgs, max) == PySliceFrom(msgs, 0 - max)

\* a cap of window messages instead of window pairs
MaxMessagesUndoubled(w) == w

\* line 23: settings.conversation_memory_window * 2
MaxMessages(w) == w * 2

\* lines 14-23: InMemoryChatHistory(session_id)
NewHistory(w) == [messages |-> << >>, max_messages |-> MaxMessages(w)]

\* lines 25-31: InMemoryChatHistory.add_message
AddMessage(h, m) ==
    LET appended == Append(h.messages, m)
    IN  [h EXCEPT !.messages = IF Len(appended) > h.max_messages
                               THEN Truncate(appended, h.max_messages)
                               ELSE appended]

\* a get_session that creates a missing session in place of the stored ones
GetSessionAlone(ss, s) ==
    IF s \in DOMAIN ss
    THEN ss
    ELSE [x \in {s} |-> [messages |-> << >>, max_messages |-> window * 2]]

\* lines 50-64: ConversationManager.get_session, as the sessions it leaves
GetSession(ss, s) ==
    IF s \in DOMAIN ss
    THEN ss
    ELSE [x \in DOMAIN ss \cup {s} |-> IF x = s THEN NewHistory(window) ELSE ss[x]]

\* lines 66-76: add_user_message / add_ai_message
AddToSession(ss, s, m) ==
    LET got == GetSession(ss, s)
    IN  [got EXCEPT ![s] = AddMessage(@, m)]

\* agent.query, lines 100-111: the user message is stored, then the agent
\* executor is awaited
QueryStart(s) ==
    /\ nq < MaxQueries
    /\ nq' = nq + 1
    /\ sessions' = AddToSession(sessions, s, HumanMessage(nq + 1))
    /\ added' = [added EXCEPT ![s] = Append(@, HumanMessage(nq + 1))]
    /\ inflight' = inflight \cup {[q |-> nq + 1, sid |-> s]}
    /\ UNCHANGED window

\* agent.query, lines 111-131: ainvoke returned, the reply is stored
QuerySucceed(x) ==
    /\ x \in inflight
    /\ inflight' = inflight \ {x}
    /\ sessions' = AddToSession(sessions, x.sid, AIMessage(x.q))
    /\ added' = [added EXCEPT ![x.sid] = Append(@, AIMessage(x.q))]
    /\ UNCHANGED <<window, nq>>

\* agent.query, lines 133-135: ainvoke raised, nothing is stored
QueryFail(x) ==
    /\ x \in inflight
    /\ inflight' = inflight \ {x}
    /\ UNCHANGED <<window, sessions, nq, added>>

\* api/main.py get_session: get_messages creates the session it asks for
SessionInfo(s) ==
    /\ sessions' = GetSession(sessions, s)
    /\ UNCHANGED <<window, inflight, nq, added>>

\* a delete_session that leaves the manager as it was
DeleteSessionKeeping(s) == UNCHANGED <<window, sessions, inflight, nq, added>>

\* ConversationManager.delete_session, lines 89-93
DeleteSession(s) ==
    /\ sessions' = IF s \in DOMAIN sessions
                   THEN [x \in DOMAIN sessions \ {s} |-> sessions[x]]
                   ELSE sessions
    /\ added' = IF s \in DOMAIN sessions THEN [added EXCEPT ![s] = << >>] ELSE added
    /\ UNCHANGED <<window, inflight, nq>>

\* ConversationManager.clear_session, lines 83-87
ClearSession(s) ==
    /\ sessions' = IF s \in DOMAIN sessions
                   THEN [sessions EXCEPT ![s].messages = << >>]
                   ELSE sessions
    /\ added' = IF s \in DOMAIN sessions THEN [added EXCEPT ![s] = << >>] ELSE added
    /\ UNCHANGED <<window, inflight, nq>>

\* the configured window is any value 0..MaxWindow
MemInit ==
    /\ window \in 0..MaxWindow
    /\ sessions = << >>
    /\ inflight = {}
    /\ nq = 0
    /\ added = [s \in SessionIds |-> << >>]

\* the memory as the other specifications hold it: the default window
MemIdle ==
    /\ window = DefaultWindow
    /\ sessions = << >>
    /\ inflight = {}
    /\ nq = 0
    /\ added = [s \in SessionIds |-> << >>]

(***************************************************************************)
(* The search tool (tools/studies_search.py) and the parameters            *)
(* search_studies hands to get (client_api/__init__.py).                   *)
(***************************************************************************)
VARIABLES
    search  \* the running search_clinical_trials call: where it is, its
            \* arguments, the params given to get("/studies"), its outcome

searchVars == <<search>>

\* Python truthiness of an Optional[str] and of an Optional[list]
TruthyStr(o) == o # None /\ o[1] # ""
TruthyList(o) == o # None /\ o[1] # << >>

\* "|".join(xs)
RECURSIVE JoinPipe(_)
JoinPipe(xs) ==
    IF Len(xs) = 0 THEN ""
    ELSE IF Len(xs) = 1 THEN xs[1]
    ELSE xs[1] \o "|" \o JoinPipe(Tail(xs))

\* d[k] = v on a dict
Put(d, k, v) == [x \in DOMAIN d \cup {k} |-> IF x = k THEN v ELSE d[x]]

\* d.get(k, default)
Get(d, k, default) == IF k \in DOMAIN d THEN d[k] ELSE default

\* d.update(e)
Update(d, e) == [x \in DOMAIN d \cup DOMAIN e |-> IF x \in DOMAIN e THEN e[x] ELSE d[x]]

EmptyDict == << >>

\* a tool that asks for the count on every page
CountTotalAlways(page_token) == TRUE

\* studies_search.py line 46: True if not page_token else False
CountTotal(page_token) == IF ~TruthyStr(page_token) THEN TRUE ELSE FALSE

\* a tool that leaves countTotal out of the keyword arguments after page one
SearchKwargsOmitting(a) ==
    IF CountTotal(a.page_token)
    THEN Put(EmptyDict, "countTotal", TRUE)
    ELSE EmptyDict

\* studies_search.py lines 38-47: the keyword arguments of search_studies
\* that land in **kwargs
SearchKwargs(a) == Put(EmptyDict, "countTotal", CountTotal(a.page_token))

\* search_studies, lines 123-146, on the tool's arguments (filter_geo and
\* fields keep their default None)
SearchParams(a) ==
    LET p1 == IF TruthyStr(a.condition)
              THEN Put(EmptyDict, "query.cond", a.condition[1]) ELSE EmptyDict
        p2 == IF TruthyStr(a.other_terms)
              THEN Put(p1, "query.term", a.other_terms[1]) ELSE p1
        p3 == IF TruthyStr(a.location)
              THEN Put(p2, "query.locn", a.location[1]) ELSE p2
        p4 == IF TruthyStr(a.intervention)
              THEN Put(p3, "query.intr", a.intervention[1]) ELSE p3
        p5 == IF TruthyList(a.status)
              THEN Put(p4, "filter.overallStatus", JoinPipe(a.status[1])) ELSE p4
        p6 == Put(p5, "pageSize", a.page_size)
        p7 == IF TruthyStr(a.page_token)
              THEN Put(p6, "pageToken", a.page_token[1]) ELSE p6
    IN  Update(p7, SearchKwargs(a))

\* studies_search.py lines 49-59: the tool's result for the dict get gave
ToolResult(r) ==
    [studies |-> Get(r, "studies", << >>),
     totalCount |-> Get(r, "totalCount", "unknown"),
     nextPageToken |-> Get(r, "nextPageToken", None),
     hasMore |-> "nextPageToken" \in DOMAIN r]

\* the arguments a caller passes to search_clinical_trials
SearchArgs ==
    [condition : {None, Some(""), Some("diabetes")},
     intervention : {None, Some("insulin")},
     location : {None, Some("Boston")},
     status : {None, Some(<< >>), Some(<<"RECRUITING">>),
               Some(<<"RECRUITING", "COMPLETED">>)},
     other_terms : {None, Some("adult")},
     page_size : {1, DefaultPageSize},
     page_token : {None, Some(""), Some("tok1")}]

\* what get("/studies") returns: the upstream JSON object, with or without
\* totalCount, without nextPageToken or with one (a token or null), or the
\* wrapper of a non-JSON body
UpstreamStudies ==
    {Update(Update([studies |-> st], t), n) :
        st \in {<< >>, <<"NCT01">>},
        t \in {EmptyDict, [totalCount |-> 57]},
        n \in {EmptyDict, [nextPageToken |-> Some("tok2")],
               [nextPageToken |-> None]}}

UpstreamResults ==
    UpstreamStudies \cup {[content |-> "<html>", content_type |-> "text/html"]}

IdleSearch ==
    [pc |-> "idle", args |-> None, params |-> EmptyDict, out |-> None]

\* search_clinical_trials is called (lines 35-47) and waits in get
SearchCall(a) ==
    /\ search.pc = "idle"
    /\ search' = [pc |-> "awaiting", args |-> Some(a),
                  params |-> SearchParams(a), out |-> None]

\* get returned r: the tool reshapes it and returns (lines 49-59)
SearchReturn(r) ==
    /\ search.pc = "awaiting"
    /\ search' = [search EXCEPT !.pc = "returned", !.out = Some(ToolResult(r))]

\* get raised: the tool logs and re-raises (lines 61-63)
SearchRaise(k) ==
    /\ search.pc = "awaiting"
    /\ search' = [search EXCEPT !.pc = "raised", !.out = Some(k)]

\* the tool's caller has the result
SearchDone ==
    /\ search.pc \in {"returned", "raised"}
    /\ search' = IdleSearch

SearchInit == search = IdleSearch

(***************************************************************************)
(* The rate limiter (middleware/rate_limiter.py).  on_tool_call has no     *)
(* await in its body, so each call runs as one step.                       *)
(***************************************************************************)
VARIABLES
    rate_limit_enabled,  \* settings.rate_limit_enabled
    rl,                  \* the RateLimitMiddleware: limit, window and
                         \* requests["global"]
    now,                 \* the last reading of time.time(), in seconds
    log                  \* history: each on_tool_call, its clock reading and
                         \* whether it returned (ok) or raised

rateVars == <<rate_limit_enabled, rl, now, log>>

\* line 19: self.window = 60
RateWindow == 60

\* the tools whose calls pass through the middleware
ToolNames == {"search_clinical_trials", "get_study_details"}

\* the seconds between one clock reading and the next
Elapsed == {0, 1, RateWindow \div 2, RateWindow - 1, RateWindow}

\* a filter that keeps a request for the whole of its 60th second
FreshInclusive(t, req_time, w) == t - req_time <= w

\* line 32: now - req_time < self.window
Fresh(t, req_time, w) == t - req_time < w

\* lines 30-33: the recorded requests that are still in the window
CleanOld(reqs, t, w) == SelectSeq(reqs, LAMBDA req_time : Fresh(t, req_time, w))

\* a check that rejects only above the limit
OverLimit(n, limit) == n > limit

\* line 36: len(self.requests[client_id]) >= self.limit
AtLimit(n, limit) == n >= limit

\* a limiter that records the rejected calls as well
OnToolCallRecording(tool_name, d) ==
    /\ Len(log) < MaxToolCalls
    /\ now' = now + d
    /\ UNCHANGED rate_limit_enabled
    /\ IF ~rate_limit_enabled
       THEN /\ log' = Append(log, [t |-> now', ok |-> TRUE])
            /\ UNCHANGED rl
       ELSE LET cleaned == CleanOld(rl.requests, now', rl.window)
            IN  /\ rl' = [rl EXCEPT !.requests = Append(cleaned, now')]
                /\ log' = Append(log, [t |-> now',
                                       ok |-> ~AtLimit(Len(cleaned), rl.limit)])

\* lines 21-41: on_tool_call(tool_name, arguments), read d seconds after the
\* previous clock reading
OnToolCall(tool_name, d) ==
    /\ Len(log) < MaxToolCalls
    /\ now' = now + d
    /\ UNCHANGED rate_limit_enabled
    /\ IF ~rate_limit_enabled
       THEN /\ log' = Append(log, [t |-> now', ok |-> TRUE])
            /\ UNCHANGED rl
       ELSE LET cleaned == CleanOld(rl.requests, now', rl.window)
            IN  IF AtLimit(Len(cleaned), rl.limit)
                THEN /\ rl' = [rl EXCEPT !.requests = cleaned]
                     /\ log' = Append(log, [t |-> now', ok |-> FALSE])
                ELSE /\ rl' = [rl EXCEPT !.requests = Append(cleaned, now')]
                     /\ log' = Append(log, [t |-> now', ok |-> TRUE])

\* lines 14-19 with any configured limit 0..MaxLimit, enabled or not
RateInit ==
    /\ rate_limit_enabled \in BOOLEAN
    /\ rl \in [requests : {<< >>}, limit : 0..MaxLimit, window : {RateWindow}]
    /\ now = 0
    /\ log = << >>

\* the limiter as the other specifications hold it: the default settings
RateIdle ==
    /\ rate_limit_enabled = TRUE
    /\ rl = [requests |-> << >>, limit |-> DefaultLimit, window |-> RateWindow]
    /\ now = 0
    /\ log = << >>

(***************************************************************************)
(* The session endpoints of the agent service (api/main.py) over the       *)
(* conversation memory, with what their callers observe.                   *)
(***************************************************************************)
VARIABLES
    info,      \* the SessionResponse of the get_session call that has just
               \* returned; None after any other call
    pristine   \* history, per session id: "no" when a query was submitted
               \* for it since its last deletion (or it was never deleted),
               \* "clean" after a deletion with no query for it in flight,
               \* "seen" once a session-info query followed a clean deletion,
               \* "racy" after a deletion with a query for it in flight

sessVars == <<info, pristine>>

\* the queries for session id s that are suspended in ainvoke
InFlightFor(s) == {x \in inflight : x.sid = s}

\* main.py lines 172-175: SessionResponse(session_id, message_count)
SessionResponse(ss, s) ==
    [session_id |-> s, message_count |-> Len(ss[s].messages)]

\* POST /query, main.py lines 100-109 into agent.query lines 104-111
PostQuery(s) ==
    /\ nq < MaxSessQueries
    /\ QueryStart(s)
    /\ pristine' = [pristine EXCEPT ![s] = "no"]
    /\ info' = None

\* agent.query returned the reply, lines 117-131
QueryReturns(x) ==
    /\ QuerySucceed(x)
    /\ info' = None
    /\ UNCHANGED pristine

\* agent.query returned the apology, lines 133-135
QueryErrors(x) ==
    /\ QueryFail(x)
    /\ info' = None
    /\ UNCHANGED pristine

\* GET /sessions/{session_id}, main.py lines 159-175
GetSessionInfo(s) ==
    /\ SessionInfo(s)
    /\ info' = Some(SessionResponse(sessions', s))
    /\ pristine' = [pristine EXCEPT ![s] = IF @ = "clean" THEN "seen" ELSE @]

\* DELETE /sessions/{session_id}, main.py lines 178-191
DeleteSessionCall(s) ==
    /\ DeleteSession(s)
    /\ info' = None
    /\ pristine' = [pristine EXCEPT
                       ![s] = IF InFlightFor(s) = {} THEN "clean" ELSE "racy"]

\* conversation_manager.clear_session(session_id)
ClearSessionCall(s) ==
    /\ ClearSession(s)
    /\ info' = None
    /\ UNCHANGED pristine

SessInit ==
    /\ info = None
    /\ pristine = [s \in SessionIds |-> "no"]

(***************************************************************************)
(* agent.query (agent.py) under POST /query (api/main.py), with the        *)
(* ProgressCallback of each query (callbacks/progress_callback.py).  The   *)
(* agent is initialized.                                                   *)
(***************************************************************************)
VARIABLES
    callbacks,  \* query -> the events of its ProgressCallback, for the
                \* queries suspended in ainvoke
    reply,      \* what POST /query answered to the query that completed last
    failed,     \* history: some query of this behaviour has failed
    occurred    \* history: the lifecycle events of the agent executor in the
                \* order they occurred, each with the query it ran for, for
                \* the queries in flight and the query that completed last

agentVars == <<callbacks, reply, failed, occurred>>

\* the callback events told apart: two that count as thinking steps and one
\* that does not
EventTypes == {"llm_start", "tool_start", "agent_action"}

\* progress_callback.py lines 25-36: emit_event appends to self.events
EmitEvent(events, type) == Append(events, type)

\* thinking steps that keep every captured event
ThinkingStepsUnfiltered(events) == events

\* agent.py lines 126-129: the events kept as thinking steps
ThinkingSteps(events) ==
    SelectSeq(events, LAMBDA e : e \in {"tool_start", "agent_action"})

\* agent.py lines 117-131: query returns (response, thinking_steps)
OnResult(events) ==
    [raised |-> FALSE, response |-> "answer",
     thinking_steps |-> ThinkingSteps(events)]

\* a query whose handler lets the exception go
OnExceptionReraise(events) ==
    [raised |-> TRUE, response |-> "exception", thinking_steps |-> << >>]

\* agent.py lines 133-135: query returns the apology and no thinking steps
OnException(events) ==
    [raised |-> FALSE, response |-> "I encountered an error",
     thinking_steps |-> << >>]

\* main.py lines 104-119: QueryResponse of what agent.query returned, or
\* HTTPException 500 of what it raised
ProcessQuery(x, out) ==
    IF out.raised
    THEN [kind |-> "HTTPException", session_id |-> x.sid, q |-> x.q,
          response |-> out.response, thinking_steps |-> << >>]
    ELSE [kind |-> "QueryResponse", session_id |-> x.sid, q |-> x.q,
          response |-> out.response, thinking_steps |-> out.thinking_steps]

\* POST /query reaches ainvoke with a new ProgressCallback (agent.py 104-111)
AgentQuery(s) ==
    /\ nq < MaxAgentQueries
    /\ QueryStart(s)
    /\ callbacks' = Put(callbacks, nq + 1, << >>)
    /\ UNCHANGED <<reply, failed, occurred>>

\* the agent executor calls a handler of the query's callback
CallbackEvent(x, type) ==
    /\ x \in inflight
    /\ Len(occurred) < MaxEvents
    /\ callbacks' = [callbacks EXCEPT ![x.q] = EmitEvent(@, type)]
    /\ occurred' = Append(occurred, [q |-> x.q, type |-> type])
    /\ UNCHANGED <<memVars, reply, failed>>

\* ainvoke returned: the reply is stored and answered (agent.py 117-131)
AgentReturns(x) ==
    /\ QuerySucceed(x)
    /\ reply' = Some(ProcessQuery(x, OnResult(callbacks[x.q])))
    /\ callbacks' = [k \in DOMAIN callbacks \ {x.q} |-> callbacks[k]]
    /\ occurred' = SelectSeq(occurred, LAMBDA e : e.q \in DOMAIN callbacks)
    /\ UNCHANGED failed

\* the LLM or a tool raised inside ainvoke (agent.py 133-135)
AgentErrors(x) ==
    /\ QueryFail(x)
    /\ reply' = Some(ProcessQuery(x, OnException(callbacks[x.q])))
    /\ callbacks' = [k \in DOMAIN callbacks \ {x.q} |-> callbacks[k]]
    /\ failed' = TRUE
    /\ occurred' = SelectSeq(occurred, LAMBDA e : e.q \in DOMAIN callbacks)

AgentInit ==
    /\ callbacks = EmptyDict
    /\ reply = None
    /\ failed = FALSE
    /\ occurred = << >>

(***************************************************************************)
(* The tools (tools/*.py) over the API client: every tool awaits one       *)
(* method of api_client inside try / except Exception: ctx.error; raise.   *)
(***************************************************************************)
VARIABLES
    tool,        \* per task, the tool invocation it runs: where it is, the
                 \* tool, what get gave it, how many upstream requests that
                 \* took, whether ctx.error was called, and its outcome
    invocations  \* history: number of tool invocations started

toolVars == <<tool, invocations>>

\* client_api/__init__.py line 56: retries: int = 3
DefaultRetries == 3

\* the api_client method each tool awaits; every one of them ends in one
\* self.get(...) with the default retries (get_list_field_sizes calls get
\* itself)
ClientMethod ==
    [search_clinical_trials |-> "search_studies",
     get_study_details |-> "get_study",
     get_field_metadata |-> "get_metadata",
     get_search_areas |-> "get_search_areas",
     get_enum_values |-> "get_enums",
     get_study_size_stats |-> "get_size_stats",
     get_field_value_stats |-> "get_field_value_stats",
     get_list_field_sizes |-> "get",
     get_api_version |-> "get_version"]

ApiTools == DOMAIN ClientMethod

IdleTool ==
    [pc |-> "idle", name |-> "", got |-> None, gets |-> 0,
     logged |-> FALSE, out |-> None]

\* a tool that answers a client error with an error dict
OnClientErrorSwallowed(e) ==
    [type |-> "return", value |-> [type |-> "error", kind |-> e.kind]]

\* except Exception as e: await ctx.error(...); raise
OnClientError(e) == [type |-> "raise", kind |-> e.kind, attempt |-> e.attempt]

\* the tool returns what the client gave it (the search tool reshaped)
OnClientResult(r) == [type |-> "return", value |-> r]

\* a tool is invoked while no other invocation is running: ctx.info, then
\* the call of its api_client method, which runs get with the default
\* retries up to its first suspension
ToolCall(t, name) ==
    /\ \A u \in Tasks : tool[u].pc = "idle"
    /\ SeqStartGet(t, DefaultRetries)
    /\ tool' = [tool EXCEPT ![t] = [IdleTool EXCEPT !.pc = "awaiting",
                                                     !.name = name]]
    /\ invocations' = invocations + 1

\* get has returned or raised: the tool returns the result, or logs the
\* error with ctx.error and re-raises it
ToolFinish(t) ==
    /\ tool[t].pc = "awaiting"
    /\ Return(t)
    /\ LET r == task[t].result[1]
       IN  tool' = [tool EXCEPT ![t] =
                       [@ EXCEPT !.pc = "finished",
                                 !.got = Some(r),
                                 !.gets = Len(task[t].reqs),
                                 !.logged = (r.type = "raise"),
                                 !.out = Some(IF r.type = "raise"
                                              THEN OnClientError(r)
                                              ELSE OnClientResult(r))]]
    /\ UNCHANGED invocations

\* the caller of the tool has its outcome
ToolDone(t) ==
    /\ tool[t].pc = "finished"
    /\ tool' = [tool EXCEPT ![t] = IdleTool]
    /\ UNCHANGED <<apiVars, invocations>>

ToolInit ==
    /\ tool = [t \in Tasks |-> IdleTool]
    /\ invocations = 0

(***************************************************************************)
(* A streamed query: agent.stream_query (agent.py) consumed by the         *)
(* event_generator of GET /stream/{session_id} (api/main.py).  The agent   *)
(* is initialized.                                                         *)
(***************************************************************************)
VARIABLES
    stream  \* the streamed query: where stream_query is suspended, its
            \* session id and query, the events it has yielded (each with
            \* whether the query's assistant message was stored when it was
            \* yielded), and the SSE events event_generator has emitted

streamVars == <<stream>>

IdleStream ==
    [pc |-> "idle", sid |-> "", q |-> 0, yielded |-> << >>, sse |-> << >>]

\* the assistant message of query q is in the stored history of session s
AiStored(ss, s, q) ==
    s \in DOMAIN ss /\ \E i \in 1..Len(ss[s].messages) : ss[s].messages[i] = AIMessage(q)

\* a stream_query whose handler sits inside the astream loop
AfterYieldResuming(type) ==
    IF type \in {"agent_event", "error"} THEN "astream" ELSE "closed"

\* where stream_query goes on after the yield of an event: back into the
\* astream loop (line 152) or off the end of the generator
AfterYield(type) == IF type = "agent_event" THEN "astream" ELSE "closed"

\* main.py lines 137-154: event_generator forwards the event as an SSE
\* event; when json.dumps raises on its data it emits an error event and
\* ends
Forward(sse, type, serializable) ==
    IF serializable THEN Append(sse, type) ELSE Append(sse, "error")

\* stream_query yields an event of the given type and event_generator
\* forwards it
Yield(st, ss, type, serializable) ==
    [st EXCEPT !.pc = IF serializable THEN AfterYield(type) ELSE "closed",
               !.yielded = Append(@, [type |-> type,
                                      ai_stored |-> AiStored(ss, st.sid, st.q)]),
               !.sse = Forward(@, type, serializable)]

\* GET /stream/{s}: the user message is stored and astream is entered
\* (agent.py lines 147-152)
StreamStart(s) ==
    /\ stream.pc = "idle"
    /\ nq < MaxStreams
    /\ nq' = nq + 1
    /\ sessions' = AddToSession(sessions, s, HumanMessage(nq + 1))
    /\ added' = [added EXCEPT ![s] = Append(@, HumanMessage(nq + 1))]
    /\ stream' = [IdleStream EXCEPT !.pc = "astream", !.sid = s, !.q = nq + 1]
    /\ UNCHANGED <<window, inflight>>

\* astream gives a state (lines 152-164): with messages it is yielded as an
\* agent_event, without it is skipped
AstreamEvent(has_messages, serializable) ==
    /\ stream.pc = "astream"
    /\ Len(stream.yielded) < MaxStreamEvents
    /\ stream' = IF has_messages
                 THEN Yield(stream, sessions, "agent_event", serializable)
                 ELSE stream
    /\ UNCHANGED memVars

\* astream raises (lines 181-183): the error event is yielded
AstreamRaise ==
    /\ stream.pc = "astream"
    /\ stream' = Yield(stream, sessions, "error", TRUE)
    /\ UNCHANGED memVars

\* astream is exhausted (line 167): aget_state is awaited
AstreamEnd ==
    /\ stream.pc = "astream"
    /\ stream' = [stream EXCEPT !.pc = "aget_state"]
    /\ UNCHANGED memVars

\* aget_state gives a state with messages (lines 168-179): the reply is
\* stored, then the final_response is yielded
GetStateMessages ==
    /\ stream.pc = "aget_state"
    /\ sessions' = AddToSession(sessions, stream.sid, AIMessage(stream.q))
    /\ added' = [added EXCEPT ![stream.sid] = Append(@, AIMessage(stream.q))]
    /\ stream' = Yield(stream, sessions', "final_response", TRUE)
    /\ UNCHANGED <<window, inflight, nq>>

\* aget_state gives a state without messages: the generator ends
GetStateEmpty ==
    /\ stream.pc = "aget_state"
    /\ stream' = [stream EXCEPT !.pc = "closed"]
    /\ UNCHANGED memVars

\* aget_state raises (lines 181-183): the error event is yielded
GetStateRaise ==
    /\ stream.pc = "aget_state"
    /\ stream' = Yield(stream, sessions, "error", TRUE)
    /\ UNCHANGED memVars

\* the client goes away while stream_query is suspended: the generators are
\* closed without another event
StreamCancel ==
    /\ stream.pc \in {"astream", "aget_state"}
    /\ stream' = [stream EXCEPT !.pc = "closed"]
    /\ UNCHANGED memVars

\* the response is complete
StreamClose ==
    /\ stream.pc = "closed"
    /\ stream' = IdleStream
    /\ UNCHANGED memVars

StreamInit == stream = IdleStream

(***************************************************************************)
(* The chat page (clinicaltrial-ui/app.py) of one browser session over the *)
(* agent service, which it reaches through client/agent_client.py.  The    *)
(* n-th value uuid.uuid4() returns is n.                                   *)
(***************************************************************************)
VARIABLES
    ui,          \* st.session_state: session_id and messages
    uuids,       \* number of uuid4 values drawn
    service,     \* the agent service's ConversationManager.sessions
    asked,       \* history: number of prompts submitted
    last_reset   \* history: the last Reset Chat: the session id before it,
                 \* the id its DELETE request carried, whether the request
                 \* reached the service

uiVars == <<ui, uuids, service, asked, last_reset>>

\* what POST /query can end in, as the page sees it: an answer, the agent's
\* apology (agent.py 133-135), or an exception of the HTTP call
QueryOutcomes == {"answer", "apology", "unreachable"}

\* app.py lines 195-252: the prompt is appended, agent_client.query is run to
\* completion with the session id of the page, and the reply or the
\* connection error is appended
UiQuery(out) ==
    /\ asked < MaxUiQueries
    /\ asked' = asked + 1
    /\ LET n == asked + 1
           shown == IF out = "unreachable" THEN "Connection Error" ELSE out
       IN  /\ ui' = [ui EXCEPT !.messages =
                         @ \o <<[role |-> "user", content |-> n],
                                [role |-> "assistant", content |-> shown]>>]
           /\ service' =
                  IF out = "unreachable" THEN service
                  ELSE IF out = "apology"
                  THEN AddToSession(service, ui.session_id, HumanMessage(n))
                  ELSE AddToSession(
                           AddToSession(service, ui.session_id, HumanMessage(n)),
                           ui.session_id, AIMessage(n))
    /\ UNCHANGED <<uuids, last_reset>>

\* api/main.py lines 178-191 over conversation_manager.py lines 89-93
ServiceDelete(ss, id) == [x \in DOMAIN ss \ {id} |-> ss[x]]

\* app.py lines 134-137: the session state after the two assignments, and
\* the id the DELETE request of line 137 reads from it
ResetState(st, new) ==
    LET st1 == [st EXCEPT !.messages = << >>]
        st2 == [st1 EXCEPT !.session_id = new]
    IN  [state |-> st2, carried |-> st2.session_id]

\* app.py lines 133-140: Reset Chat is pressed; the DELETE request reaches
\* the service or fails, and its failure is passed over (lines 138-139)
ResetChat(reached) ==
    /\ uuids < MaxUuids
    /\ uuids' = uuids + 1
    /\ LET r == ResetState(ui, uuids + 1)
       IN  /\ ui' = r.state
           /\ service' = IF reached THEN ServiceDelete(service, r.carried)
                         ELSE service
           /\ last_reset' = Some([before |-> ui.session_id,
                                  carried |-> r.carried,
                                  reached |-> reached])
    /\ UNCHANGED asked

\* app.py lines 90-94
UiInit ==
    /\ ui = [session_id |-> 1, messages |-> << >>]
    /\ uuids = 1
    /\ service = EmptyDict
    /\ asked = 0
    /\ last_reset = None

notApiVars ==
    <<memVars, searchVars, rateVars, sessVars, agentVars, toolVars, streamVars, uiVars>>
notMemVars ==
    <<apiVars, searchVars, rateVars, sessVars, agentVars, toolVars, streamVars, uiVars>>
notSearchVars ==
    <<apiVars, memVars, rateVars, sessVars, agentVars, toolVars, streamVars, uiVars>>
notRateVars ==
    <<apiVars, memVars, searchVars, sessVars, agentVars, toolVars, streamVars, uiVars>>
notSessVars == <<apiVars, searchVars, rateVars, agentVars, toolVars, streamVars, uiVars>>
notAgentVars == <<apiVars, searchVars, rateVars, sessVars, toolVars, streamVars, uiVars>>
notToolVars == <<memVars, searchVars, rateVars, sessVars, agentVars, streamVars, uiVars>>
notStreamVars == <<apiVars, searchVars, rateVars, sessVars, agentVars, toolVars, uiVars>>
notUiVars ==
    <<apiVars, memVars, searchVars, rateVars, sessVars, agentVars, toolVars,
      streamVars>>

vars ==
    <<apiVars, memVars, searchVars, rateVars, sessVars, agentVars, toolVars,
      streamVars, uiVars>>

Init ==
    /\ ApiInit /\ MemIdle /\ SearchInit /\ RateIdle
    /\ SessInit /\ AgentInit /\ ToolInit /\ StreamInit /\ UiInit

Next ==
    \/ \E t \in Tasks, n \in 0..MaxRetries :
           SeqStartGet(t, n) /\ UNCHANGED notApiVars
    \/ \E t \in Tasks, o \in Outcomes :
           Response(t, o) /\ UNCHANGED notApiVars
    \/ \E t \in Tasks, raised \in BOOLEAN :
           AcloseDone(t, raised) /\ UNCHANGED notApiVars
    \/ \E t \in Tasks : Return(t) /\ UNCHANGED notApiVars

Spec == Init /\ [][Next]_vars

\* every awaited upstream request and every awaited pool close eventually
\* completes or fails
Fairness ==
    \A t \in Tasks :
        /\ WF_vars(\E o \in Outcomes : Response(t, o) /\ UNCHANGED notApiVars)
        /\ WF_vars(\E raised \in BOOLEAN :
                      AcloseDone(t, raised) /\ UNCHANGED notApiVars)

LiveSpec == Init /\ [][Next]_vars /\ Fairness

\* several get calls in flight on the shared api_client (lines 198-199): the
\* tool handlers of concurrent requests suspend in get at lines 78 and 47
ConcStartGet(t, n) ==
    /\ calls < MaxConcCalls
    /\ StartGet(t, n)

ConcNext ==
    \/ \E t \in Tasks, n \in 1..MaxConcRetries :
           ConcStartGet(t, n) /\ UNCHANGED notApiVars
    \/ \E t \in Tasks, o \in Outcomes :
           Response(t, o) /\ UNCHANGED notApiVars
    \/ \E t \in Tasks, raised \in BOOLEAN :
           AcloseDone(t, raised) /\ UNCHANGED notApiVars
    \/ \E t \in Tasks : Return(t) /\ UNCHANGED notApiVars

ConcSpec == Init /\ [][ConcNext]_vars

UiNext ==
    \/ \E out \in QueryOutcomes : UiQuery(out) /\ UNCHANGED notUiVars
    \/ \E reached \in BOOLEAN : ResetChat(reached) /\ UNCHANGED notUiVars

UiSpec == Init /\ [][UiNext]_vars

MemStart ==
    /\ ApiInit /\ MemInit /\ SearchInit /\ RateIdle
    /\ SessInit /\ AgentInit /\ ToolInit /\ StreamInit /\ UiInit

MemNext ==
    \/ \E s \in SessionIds : QueryStart(s) /\ UNCHANGED notMemVars
    \/ \E x \in inflight : QuerySucceed(x) /\ UNCHANGED notMemVars
    \/ \E x \in inflight : QueryFail(x) /\ UNCHANGED notMemVars
    \/ \E s \in SessionIds : SessionInfo(s) /\ UNCHANGED notMemVars
    \/ \E s \in SessionIds : DeleteSession(s) /\ UNCHANGED notMemVars
    \/ \E s \in SessionIds : ClearSession(s) /\ UNCHANGED notMemVars

MemSpec == MemStart /\ [][MemNext]_vars

SearchNext ==
    \/ \E a \in SearchArgs : SearchCall(a) /\ UNCHANGED notSearchVars
    \/ \E r \in UpstreamResults : SearchReturn(r) /\ UNCHANGED notSearchVars
    \/ \E k \in ErrorKinds : SearchRaise(k) /\ UNCHANGED notSearchVars
    \/ SearchDone /\ UNCHANGED notSearchVars

SearchSpec == Init /\ [][SearchNext]_vars

RateStart ==
    /\ ApiInit /\ MemIdle /\ SearchInit /\ RateInit
    /\ SessInit /\ AgentInit /\ ToolInit /\ StreamInit /\ UiInit

RateNext ==
    \E tool_name \in ToolNames, d \in Elapsed :
        OnToolCall(tool_name, d) /\ UNCHANGED notRateVars

RateSpec == RateStart /\ [][RateNext]_vars

SessNext ==
    \/ \E s \in SessionIds : PostQuery(s) /\ UNCHANGED notSessVars
    \/ \E x \in inflight : QueryReturns(x) /\ UNCHANGED notSessVars
    \/ \E x \in inflight : QueryErrors(x) /\ UNCHANGED notSessVars
    \/ \E s \in SessionIds : GetSessionInfo(s) /\ UNCHANGED notSessVars
    \/ \E s \in SessionIds : DeleteSessionCall(s) /\ UNCHANGED notSessVars
    \/ \E s \in SessionIds : ClearSessionCall(s) /\ UNCHANGED notSessVars

SessSpec == Init /\ [][SessNext]_vars

AgentNext ==
    \/ \E s \in SessionIds : AgentQuery(s) /\ UNCHANGED notAgentVars
    \/ \E x \in inflight, type \in EventTypes :
           CallbackEvent(x, type) /\ UNCHANGED notAgentVars
    \/ \E x \in inflight : AgentReturns(x) /\ UNCHANGED notAgentVars
    \/ \E x \in inflight : AgentErrors(x) /\ UNCHANGED notAgentVars

AgentSpec == Init /\ [][AgentNext]_vars

ToolNext ==
    \/ \E t \in Tasks, name \in ApiTools :
           ToolCall(t, name) /\ UNCHANGED notToolVars
    \/ \E t \in Tasks, o \in Outcomes :
           Response(t, o) /\ UNCHANGED <<notToolVars, toolVars>>
    \/ \E t \in Tasks, raised \in BOOLEAN :
           AcloseDone(t, raised) /\ UNCHANGED <<notToolVars, toolVars>>
    \/ \E t \in Tasks : ToolFinish(t) /\ UNCHANGED notToolVars
    \/ \E t \in Tasks : ToolDone(t) /\ UNCHANGED notToolVars

ToolSpec == Init /\ [][ToolNext]_vars

StreamNext ==
    \/ \E s \in SessionIds : StreamStart(s) /\ UNCHANGED notStreamVars
    \/ \E has_messages, serializable \in BOOLEAN :
           AstreamEvent(has_messages, serializable) /\ UNCHANGED notStreamVars
    \/ AstreamRaise /\ UNCHANGED notStreamVars
    \/ AstreamEnd /\ UNCHANGED notStreamVars
    \/ GetStateMessages /\ UNCHANGED notStreamVars
    \/ GetStateEmpty /\ UNCHANGED notStreamVars
    \/ GetStateRaise /\ UNCHANGED notStreamVars
    \/ StreamCancel /\ UNCHANGED notStreamVars
    \/ StreamClose /\ UNCHANGED notStreamVars
    \/ \E s \in SessionIds :
           DeleteSession(s) /\ UNCHANGED <<notStreamVars, streamVars>>

StreamSpec == Init /\ [][StreamNext]_vars

(***************************************************************************)
(* Claims about ClinicalTrialsAPIClient.get, checked under Spec.           *)
(***************************************************************************)
AllFaults(rs) == \A i \in 1..Len(rs) : rs[i] = "fault"

\* the attempts of the frame so far: k transport faults, then a success
FaultsThenOk(fr) ==
    /\ Len(fr.resps) >= 1
    /\ AllFaults(SubSeq(fr.resps, 1, Len(fr.resps) - 1))
    /\ fr.resps[Len(fr.resps)] = "ok"

\* C1: with attempt ceiling N, k < N transport faults are each followed by
\* a further attempt (nothing is raised), and when attempt k+1 succeeds the
\* call returns the value shaped from the response of attempt k+1 after
\* exactly k+1 upstream requests.
C1_RetryThenSuccess ==
    \A t \in Tasks :
        LET fr == task[t]
            n == Len(fr.resps)
        IN  /\ (AllFaults(fr.resps) /\ n < fr.retries) =>
                /\ fr.pc \in {"request", "closing"}
                /\ Len(fr.reqs) \in {n, n + 1}
            /\ (FaultsThenOk(fr) /\ n <= fr.retries) =>
                /\ fr.pc = "done"
                /\ Len(fr.reqs) = n
                /\ fr.result # None
                /\ fr.result[1].type = "return"
                /\ fr.result[1].body = n
                /\ fr.result[1].shape =
                       (IF fr.last[1].ctype \in JsonCTypes THEN "json" ELSE "wrapped")

\* two transport faults, then the third and last allowed attempt succeeds
C1_Witness ==
    \E t \in Tasks :
        /\ task[t].pc = "done"
        /\ task[t].retries = 3
        /\ task[t].resps = <<"fault", "fault", "ok">>

\* C2: with attempt ceiling N >= 1, when all N attempts end in a transport
\* fault the call has issued exactly N upstream requests, issues no more,
\* and ends by raising the fault of attempt N.
C2_ExhaustedRaisesLast ==
    \A t \in Tasks :
        LET fr == task[t]
        IN  (fr.retries >= 1 /\ Len(fr.resps) = fr.retries /\ AllFaults(fr.resps)) =>
                /\ Len(fr.reqs) = fr.retries
                /\ fr.pc \in {"closing", "done"}
                /\ fr.pc = "done" =>
                       fr.result = Some([type |-> "raise", kind |-> fr.last[1].kind,
                                         attempt |-> fr.retries])

\* three transport faults on three allowed attempts, the last a WriteError
C2_Witness ==
    \E t \in Tasks :
        /\ task[t].pc = "done"
        /\ task[t].retries = 3
        /\ task[t].resps = <<"fault", "fault", "fault">>
        /\ task[t].last[1].kind = "WriteError"

\* C3: a 4xx/5xx response ends the call at once: the status error of that
\* attempt is raised and no further request is issued; a call whose first
\* response is 4xx/5xx has issued exactly one request.
C3_StatusNotRetried ==
    \A t \in Tasks :
        LET fr == task[t]
        IN  \A i \in 1..Len(fr.resps) :
                fr.resps[i] = "status" =>
                    /\ i = Len(fr.resps)
                    /\ Len(fr.reqs) = i
                    /\ fr.pc = "done"
                    /\ fr.result = Some([type |-> "raise", kind |-> "HTTPStatusError",
                                         attempt |-> i])

\* the first response is 4xx/5xx although two more attempts were allowed
C3_Witness ==
    \E t \in Tasks :
        /\ task[t].retries = 3
        /\ task[t].resps = <<"status">>
        /\ Len(task[t].reqs) = 1

\* C4: a further request is issued only after one of the three transport
\* faults; any other request error or unexpected exception ends the call at
\* that attempt with that exception, and the pooled client it ran on stays
\* open and stays the client's _client.
C4_OnlyTransportFaultsRetry ==
    \A t \in Tasks :
        LET fr == task[t]
        IN  /\ \A i \in 1..Len(fr.reqs) : i > 1 => fr.resps[i - 1] = "fault"
            /\ \A i \in 1..Len(fr.resps) :
                   fr.resps[i] = "other" =>
                       /\ i = Len(fr.resps)
                       /\ Len(fr.reqs) = i
                       /\ fr.pc = "done"
                       /\ fr.result = Some([type |-> "raise", kind |-> fr.last[1].kind,
                                            attempt |-> i])
                       /\ fr.on \notin closed
                       /\ client = Some(fr.on)

\* a connection failure on the retry after one transport fault
C4_Witness ==
    \E t \in Tasks :
        /\ task[t].retries = 3
        /\ task[t].resps = <<"fault", "other">>
        /\ task[t].last[1].kind = "ConnectError"

\* C5: with one get call at a time, a client a transport fault occurred on
\* is closed, and is no longer _client once its close has returned; every
\* request in flight runs on a client that never faulted and is not closed,
\* and within a call each retry runs on a client constructed after the one
\* before.
C5_FaultedClientNeverReused ==
    ~overlap =>
        /\ \A x \in faulted :
               /\ x \in closed
               /\ client = Some(x) =>
                      \E t \in Tasks : task[t].pc = "closing" /\ task[t].on = x
        /\ \A t \in Tasks :
               LET fr == task[t]
               IN  /\ fr.pc = "request" => (fr.on \notin faulted /\ fr.on \notin closed)
                   /\ \A i \in 1..Len(fr.reqs) :
                          i > 1 => fr.reqs[i] > fr.reqs[i - 1]

\* the second call's retry is in flight, after a first call that used up
\* its attempts: three clients so far, two of them faulted
C5_Witness ==
    \E t \in Tasks :
        /\ task[t].pc = "request"
        /\ Len(task[t].reqs) = 2
        /\ calls = 2
        /\ Cardinality(faulted) = 2
        /\ constructed = 3

\* C6: no client exists before the first get call, and as long as no
\* transport fault occurred and no client was closed, at most one client
\* was constructed, it is _client, and every request ran on it.
C6_LazySingleClient ==
    /\ calls = 0 => (constructed = 0 /\ client = None)
    /\ requests = 0 => constructed = 0
    /\ (faulted = {} /\ closed = {}) =>
           /\ constructed <= 1
           /\ requests >= 1 => (constructed = 1 /\ client = Some(1))
           /\ \A t \in Tasks : \A i \in 1..Len(task[t].reqs) : task[t].reqs[i] = 1

\* the third request of the third call, all on the one client
C6_Witness ==
    /\ calls = 3
    /\ requests = 3
    /\ faulted = {}
    /\ constructed = 1
    /\ \E t \in Tasks : task[t].pc = "request"

(***************************************************************************)
(* Claims about the conversation memory, checked under MemSpec.            *)
(***************************************************************************)
Range(xs) == {xs[i] : i \in 1..Len(xs)}

Stored(s) == sessions[s].messages

\* the messages added to s since it was created or cleared that it no
\* longer holds
Evicted(s) == Range(added[s]) \ Range(Stored(s))

\* the place of message m in the order of addition
AddedAt(s, m) == CHOOSE i \in 1..Len(added[s]) : added[s][i] = m

\* C7: for every configured window w >= 0 a session never holds more than
\* 2*w messages.
C7_CountWithinBound ==
    \A s \in DOMAIN sessions : Len(Stored(s)) <= 2 * window

\* C8: with window w >= 1, a session that had n messages added since it was
\* created or last cleared holds exactly the last min(n, 2*w) of them, in
\* the order they were added.
C8_FifoTruncation ==
    window >= 1 =>
        \A s \in DOMAIN sessions :
            LET n == Len(added[s])
                k == IF n < 2 * window THEN n ELSE 2 * window
            IN  Stored(s) = SubSeq(added[s], n - k + 1, n)

\* five messages were added to a session of window 1: three were evicted
C8_Witness ==
    \E s \in DOMAIN sessions :
        /\ window = 1
        /\ Len(added[s]) = 5
        /\ Len(Stored(s)) = 2

\* every reply was added right after its own user message: the queries of
\* the session were answered one at a time
RepliesAdjacent(s) ==
    \A i \in 1..Len(added[s]) :
        added[s][i].role = "assistant" =>
            i > 1 /\ added[s][i - 1] = HumanMessage(added[s][i].q)

\* C9 as claimed: a retained assistant reply never has its user message
\* evicted (pairs leave the history whole); stated here for the sessions
\* whose queries were answered one at a time, where it already fails.
C9_WholePairsEvicted ==
    \A s \in DOMAIN sessions :
        RepliesAdjacent(s) =>
            \A i \in 1..Len(Stored(s)) :
                Stored(s)[i].role = "assistant" =>
                    HumanMessage(Stored(s)[i].q) \notin Evicted(s)

\* C9 as amended: eviction is by message, oldest first: every evicted
\* message was added before every retained one, so a retained user message
\* never has its reply evicted (a retained reply may have lost its user
\* message).
C9_OldestMessageFirst ==
    \A s \in DOMAIN sessions :
        /\ \A m \in Evicted(s) : \A r \in Range(Stored(s)) :
               AddedAt(s, m) < AddedAt(s, r)
        /\ \A i \in 1..Len(Stored(s)) :
               Stored(s)[i].role = "user" =>
                   AIMessage(Stored(s)[i].q) \notin Evicted(s)

\* no query is running and a session holds a reply whose user message was
\* evicted
C9_Witness ==
    /\ inflight = {}
    /\ \E s \in DOMAIN sessions :
           \E i \in 1..Len(Stored(s)) :
               /\ Stored(s)[i].role = "assistant"
               /\ HumanMessage(Stored(s)[i].q) \in Evicted(s)

(***************************************************************************)
(* Claims about the search tool, checked under SearchSpec.                 *)
(***************************************************************************)
\* the params ask upstream for a total count
RequestsTotal(p) == "countTotal" \in DOMAIN p /\ p["countTotal"] = TRUE

\* C10: a search asks upstream for a total count (countTotal true) exactly
\* when it carries no page token: the page_token argument is None or empty,
\* which is exactly when no pageToken is sent upstream; with a page token
\* countTotal is not true.
C10_CountTotalIffNoPageToken ==
    search.pc # "idle" =>
        LET a == search.args[1]
            p == search.params
        IN  /\ RequestsTotal(p) <=> ~TruthyStr(a.page_token)
            /\ RequestsTotal(p) <=> "pageToken" \notin DOMAIN p
            /\ "pageToken" \in DOMAIN p => p["pageToken"] = a.page_token[1]

\* a search for the page after tok1 is waiting in get, asking for no count
C10_Witness ==
    /\ search.pc = "awaiting"
    /\ search.args[1].page_token = Some("tok1")
    /\ search.args[1].condition = Some("diabetes")
    /\ search.params["pageToken"] = "tok1"
    /\ ~RequestsTotal(search.params)


\* C11 as stated: when a page token is supplied to a search, countTotal is
\* left out of the query parameters sent upstream.
C11_CountTotalOmitted ==
    (search.pc # "idle" /\ TruthyStr(search.args[1].page_token)) =>
        "countTotal" \notin DOMAIN search.params

\* C11, amended: countTotal is a key of the query parameters of every search;
\* when a page token is supplied it is sent with the value false, next to
\* the pageToken.
C11_CountTotalSentFalse ==
    search.pc # "idle" =>
        /\ "countTotal" \in DOMAIN search.params
        /\ TruthyStr(search.args[1].page_token) =>
               /\ search.params["countTotal"] = FALSE
               /\ "pageToken" \in DOMAIN search.params

\* a search with only a page token is waiting in get; its params carry
\* countTotal false
C11_Witness ==
    /\ search.pc = "awaiting"
    /\ search.args[1].page_token = Some("tok1")
    /\ search.args[1].condition = None
    /\ "countTotal" \in DOMAIN search.params
    /\ search.params["countTotal"] = FALSE


\* C17 as stated: in every result of search_clinical_trials, hasMore is true
\* exactly when nextPageToken is present in the result, that is, not null.
C17_HasMoreIffNextPageToken ==
    search.pc = "returned" =>
        (search.out[1].hasMore <=> search.out[1].nextPageToken # None)

(***************************************************************************)
(* Claims about the rate limiter, checked under RateSpec.                  *)
(***************************************************************************)
\* call j was made within 60 seconds of the first call
InFirstWindow(j) == log[j].t - log[1].t < RateWindow

\* C12: with the limiter enabled, a limit L >= 1 and an empty window at the
\* start, the first call is accepted, and counting from it: the first L
\* calls made within 60 seconds are accepted, every further call within
\* those 60 seconds is rejected, and the first call made once 60 seconds
\* have elapsed since the first accepted call is accepted again.
C12_LimitThenRejectThenAccept ==
    (rate_limit_enabled /\ rl.limit >= 1) =>
        \A j \in 1..Len(log) :
            /\ j = 1 => log[j].ok
            /\ (j <= rl.limit /\ InFirstWindow(j)) => log[j].ok
            /\ (j > rl.limit /\ InFirstWindow(j)) => ~log[j].ok
            /\ (j > 1 /\ ~InFirstWindow(j) /\ InFirstWindow(j - 1)) => log[j].ok

\* limit 2: two calls accepted, a third rejected 1 second after the first,
\* and a fourth accepted exactly 60 seconds after the first
C12_Witness ==
    /\ rate_limit_enabled
    /\ rl.limit = 2
    /\ Len(log) = 4
    /\ log[1].ok /\ log[2].ok /\ ~log[3].ok /\ log[4].ok
    /\ log[3].t - log[1].t = 1
    /\ log[4].t - log[1].t = RateWindow

\* the accepted calls made less than 60 seconds before call j, call j included
AcceptedWithin(j) ==
    {i \in 1..j : log[i].ok /\ log[j].t - log[i].t < RateWindow}

\* C13: with the limiter enabled and a non-decreasing clock, whatever the
\* tools called and the order of the calls, the accepted calls whose
\* timestamps lie in a span shorter than 60 seconds never outnumber the
\* limit: every such span ends at some accepted call j and holds at most
\* the accepted calls of the 60 seconds before j.
C13_SlidingWindowSafety ==
    rate_limit_enabled =>
        \A j \in 1..Len(log) :
            log[j].ok => Cardinality(AcceptedWithin(j)) <= rl.limit

\* limit 1: a call accepted, one rejected 59 seconds later, one accepted 60
\* seconds after the first and one rejected 30 seconds after that
C13_Witness ==
    /\ rate_limit_enabled
    /\ rl.limit = 1
    /\ Len(log) = 4
    /\ log[1].ok /\ ~log[2].ok /\ log[3].ok /\ ~log[4].ok
    /\ log[2].t - log[1].t = RateWindow - 1
    /\ log[3].t - log[1].t = RateWindow
    /\ log[4].t - log[3].t = RateWindow \div 2


\* the accepted calls of the log that are less than 60 seconds old
UnexpiredAccepted ==
    SelectSeq(log, LAMBDA e : e.ok /\ now - e.t < RateWindow)

\* C22: a rejected call records no timestamp.  After a rejection the
\* recorded timestamps are exactly the unexpired ones from before the call;
\* so, with the limiter enabled, the recorded timestamps are always those of
\* the accepted calls made less than 60 seconds before the last call, and
\* rejected calls never postpone the moment calls are accepted again.
C22_RejectedRecordsNothing ==
    /\ [](rate_limit_enabled =>
            /\ Len(rl.requests) = Len(UnexpiredAccepted)
            /\ \A i \in 1..Len(rl.requests) :
                   rl.requests[i] = UnexpiredAccepted[i].t)
    /\ [][(Len(log') > Len(log) /\ ~log'[Len(log')].ok) =>
             rl'.requests = CleanOld(rl.requests, now', rl.window)]_vars

\* limit 1: after an accepted call, two calls are rejected, the second 59
\* seconds after the accepted one, and a call 60 seconds after it is accepted
C22_Witness ==
    /\ rate_limit_enabled
    /\ rl.limit = 1
    /\ Len(log) = 4
    /\ log[1].ok /\ ~log[2].ok /\ ~log[3].ok /\ log[4].ok
    /\ log[3].t - log[1].t = RateWindow - 1
    /\ log[4].t - log[1].t = RateWindow
    /\ rl.requests = <<log[4].t>>

(***************************************************************************)
(* Claims about the session endpoints, checked under SessSpec.             *)
(***************************************************************************)
\* the session-info response just returned is about s
Reports(s) == info # None /\ info[1].session_id = s

\* C14: after a session is deleted with no query for its id in flight, the
\* id is absent from the manager until the next session-info query, and
\* that query (which stores it again, empty) reports message_count 0,
\* whatever the history was before the deletion.
C14_DeleteThenInfoReportsZero ==
    \A s \in SessionIds :
        /\ pristine[s] = "clean" => s \notin DOMAIN sessions
        /\ pristine[s] = "seen" =>
               (s \in DOMAIN sessions /\ sessions[s].messages = << >>)
        /\ (pristine[s] \in {"clean", "seen"} /\ Reports(s)) =>
               info[1].message_count = 0

\* s1 held a question and its reply, was deleted, and the session-info
\* query that followed reported 0 messages
C14_Witness ==
    /\ nq = 1
    /\ inflight = {}
    /\ pristine["s1"] = "seen"
    /\ info = Some([session_id |-> "s1", message_count |-> 0])
    /\ sessions["s1"].messages = << >>

\* every session other than s is stored as it was, and no other id appeared
OthersKept(s) ==
    /\ DOMAIN sessions' \subseteq DOMAIN sessions \cup {s}
    /\ \A r \in DOMAIN sessions \ {s} :
           r \in DOMAIN sessions' /\ sessions'[r] = sessions[r]

\* C15: an id that is not stored is never an error.  A session-info query
\* on it stores an empty session and reports 0; appending a user message or
\* a reply to it stores a session holding just that message; deleting or
\* clearing it changes nothing.  No other session changes.
C15_UnknownSessionNeverError ==
    [][\A s \in SessionIds : s \notin DOMAIN sessions =>
          /\ GetSessionInfo(s) =>
                 /\ s \in DOMAIN sessions'
                 /\ sessions'[s].messages = << >>
                 /\ info' = Some([session_id |-> s, message_count |-> 0])
                 /\ OthersKept(s)
          /\ PostQuery(s) =>
                 /\ s \in DOMAIN sessions'
                 /\ sessions'[s].messages = <<HumanMessage(nq')>>
                 /\ OthersKept(s)
          /\ \A x \in InFlightFor(s) : QueryReturns(x) =>
                 /\ s \in DOMAIN sessions'
                 /\ sessions'[s].messages = <<AIMessage(x.q)>>
                 /\ OthersKept(s)
          /\ DeleteSessionCall(s) => sessions' = sessions
          /\ ClearSessionCall(s) => sessions' = sessions]_vars

\* s1 holds a question and its reply; s2, never used and deleted all the
\* same, was then asked about and reported 0 messages
C15_Witness ==
    /\ "s1" \in DOMAIN sessions
    /\ Len(sessions["s1"].messages) = 2
    /\ pristine["s1"] = "no"
    /\ pristine["s2"] = "seen"
    /\ nq = 1
    /\ \A i \in 1..2 : added["s1"][i] = sessions["s1"].messages[i]
    /\ info = Some([session_id |-> "s2", message_count |-> 0])

\* C19 as stated: a deleted session stays destroyed until a query is
\* submitted after the deletion, even when a query for it was in flight at
\* the deletion: the id is not stored with messages, and a session-info
\* query on it reports 0.
C19_DeletedStaysDestroyed ==
    \A s \in SessionIds :
        pristine[s] # "no" =>
            /\ s \in DOMAIN sessions => sessions[s].messages = << >>
            /\ Reports(s) => info[1].message_count = 0


(***************************************************************************)
(* Claims about agent.query, checked under AgentSpec.                      *)
(***************************************************************************)
\* C16: for an initialized agent, a failure of the LLM or of a tool during a
\* query never leaves agent.query as an exception: the query is answered
\* with an apology string and an empty list of thinking steps, whatever
\* events its callback had recorded, and the queries completing after a
\* failure are answered as well, successful ones with their reply.
C16_FailureNeverPropagates ==
    reply # None =>
        /\ reply[1].kind = "QueryResponse"
        /\ reply[1].response \in {"answer", "I encountered an error"}
        /\ reply[1].response = "I encountered an error" =>
               (failed /\ reply[1].thinking_steps = << >>)
        /\ (failed /\ nq < MaxAgentQueries) =>
               \A s \in SessionIds : ENABLED AgentQuery(s)

\* query 1 failed after its callback had recorded a tool_start; query 2,
\* which completed later, was answered with its reply and its thinking step
C16_Witness ==
    /\ failed
    /\ inflight = {}
    /\ reply # None
    /\ reply[1].q = 2
    /\ reply[1].response = "answer"
    /\ reply[1].thinking_steps = <<"tool_start">>
    /\ Len(sessions[reply[1].session_id].messages) = 3


Terminal == {"final_response", "error"}

\* C20: a streamed query emits zero or more agent_event events followed by
\* at most one terminal event, final_response or error: every event before
\* the last one is an agent_event, so no agent_event follows a
\* final_response and nothing follows an error.  This holds of the events
\* stream_query yields and of the SSE events the endpoint emits.  A
\* final_response is yielded only with the query's assistant message stored.
C20_EventsThenOneTerminal ==
    /\ \A i \in 1..Len(stream.yielded) :
           /\ stream.yielded[i].type \in Terminal \cup {"agent_event"}
           /\ i < Len(stream.yielded) => stream.yielded[i].type = "agent_event"
           /\ stream.yielded[i].type = "final_response" =>
                  stream.yielded[i].ai_stored
    /\ \A i \in 1..Len(stream.sse) :
           /\ stream.sse[i] \in Terminal \cup {"agent_event"}
           /\ i < Len(stream.sse) => stream.sse[i] = "agent_event"
    /\ (stream.yielded # << >>
          /\ stream.yielded[Len(stream.yielded)].type \in Terminal) =>
              stream.pc = "closed"

\* two agent_events, then the final_response, with the reply in the session
C20_Witness ==
    /\ stream.pc = "closed"
    /\ stream.sse = <<"agent_event", "agent_event", "final_response">>
    /\ AiStored(sessions, stream.sid, stream.q)
    /\ Len(sessions[stream.sid].messages) = 2

\* C21: every get call issues at most retries upstream requests, and when
\* every awaited request and every awaited pool close eventually completes
\* or fails, a running call eventually ends, with a value or an exception.
C21_BoundedAndTerminates ==
    /\ [](\A t \in Tasks : Len(task[t].reqs) <= task[t].retries)
    /\ \A t \in Tasks : Running(t) ~> task[t].pc = "done"

\* a call with retries 3 has ended after its third request
C21_Witness ==
    \E t \in Tasks :
        /\ task[t].pc = "done"
        /\ task[t].retries = DefaultRetries
        /\ Len(task[t].reqs) = DefaultRetries
        /\ task[t].resps = <<"fault", "fault", "status">>

\* C25: for every non-negative retries, a get call that returns normally
\* returns a value derived from a successful upstream response: it issued at
\* least one upstream request, its last response was a 2xx one, and the
\* value is not None.
C25_ReturnDerivedFromResponse ==
    \A t \in Tasks :
        (task[t].pc = "done" /\ task[t].result[1].type = "return") =>
            /\ Len(task[t].reqs) >= 1
            /\ task[t].last # None /\ task[t].last[1].kind = "OK"
            /\ task[t].result[1].shape # "None"

\* C27: if closing the faulted client itself raises, the error is swallowed.
\* Whatever the close ended in, the step that follows it clears the client
\* reference (a retry then constructs a new client), surfaces on the last
\* attempt the transport fault and nothing else, and otherwise issues the
\* next attempt: it is the step a successful close is followed by.
C27_CloseErrorSwallowed ==
    [][\A t \in Tasks :
         (task[t].pc = "closing" /\ task'[t] # task[t]) =>
            LET ok == AfterAclose(None, constructed, closed, task[t])
            IN  /\ client' = ok.client
                /\ constructed' = ok.constructed
                /\ [task'[t] EXCEPT !.swallowed = task[t].swallowed] = ok.frame
                /\ client' # Some(task[t].on)
                /\ task'[t].pc = "done" =>
                       /\ client' = None
                       /\ LastAttempt(task[t].attempt, task[t].retries)
                       /\ task'[t].result = Some(Raise(task[t].exc[1]))
                       /\ task'[t].result[1].kind \in TransportFaultKinds
                /\ task'[t].pc = "request" =>
                       /\ client' = Some(constructed + 1)
                       /\ task'[t].attempt = task[t].attempt + 1]_vars

\* the close after the first fault raised, and the retry returned a response
C27_Witness ==
    \E t \in Tasks :
        /\ task[t].swallowed
        /\ task[t].pc = "done"
        /\ task[t].resps = <<"fault", "ok">>
        /\ task[t].result[1].type = "return"
        /\ task[t].reqs[2] = task[t].reqs[1] + 1

\* C26: whenever no query is in flight for a session, its history holds no
\* two adjacent messages of the same role.
C26_RolesAlternateWhenIdle ==
    \A s \in DOMAIN sessions :
        (\A x \in inflight : x.sid # s) =>
            \A i \in 1..(Len(sessions[s].messages) - 1) :
                sessions[s].messages[i].role # sessions[s].messages[i + 1].role

\* C23: with several get calls in flight, a transport fault in one call
\* never closes a client on which another call has a request in flight, and
\* never closes a client created after the faulted request was issued: the
\* client its handler closes is the one the request was issued on.
C23_FaultClosesOnlyOwnIdleClient ==
    [][\A t \in Tasks :
         (task[t].pc = "request" /\ task'[t].pc = "closing") =>
            \A id \in closed' \ closed :
                /\ \A u \in Tasks \ {t} :
                       ~(task[u].pc = "request" /\ task[u].on = id)
                /\ id = task[t].on]_vars

\* C24: no pooled client is ever leaked: every client constructed is the
\* current client or has been closed, and the client reference is never
\* cleared or overwritten while it points to a client that is not closed.
C24_NoClientLeaked ==
    /\ [](\A id \in 1..constructed : client = Some(id) \/ id \in closed)
    /\ [][(client # None /\ client' # client) => client[1] \in closed]_vars

\* the tool_start and agent_action events that occurred during query q
StepsDuring(q) ==
    SelectSeq(occurred,
              LAMBDA e : e.q = q /\ e.type \in {"tool_start", "agent_action"})

\* C29: the thinking_steps a successful query returns are exactly the
\* lifecycle events of type tool_start or agent_action that occurred during
\* that query, in order; the events of the other queries, concurrent ones
\* included, are not among them.
C29_ThinkingStepsAreOwnEvents ==
    (reply # None /\ reply[1].kind = "QueryResponse"
        /\ reply[1].response = "answer") =>
        /\ Len(reply[1].thinking_steps) = Len(StepsDuring(reply[1].q))
        /\ \A i \in 1..Len(reply[1].thinking_steps) :
               reply[1].thinking_steps[i] = StepsDuring(reply[1].q)[i].type

\* query 1 returned its own tool_start while query 2, which had emitted an
\* agent_action before it, was still in flight
C29_Witness ==
    /\ reply # None
    /\ reply[1].kind = "QueryResponse"
    /\ reply[1].q = 1
    /\ reply[1].thinking_steps = <<"tool_start">>
    /\ \E x \in inflight : x.q = 2
    /\ occurred = <<[q |-> 2, type |-> "agent_action"],
                    [q |-> 1, type |-> "tool_start"]>>

\* C28: pressing Reset Chat deletes, on the agent service, the session of
\* the conversation being reset: the DELETE request carries the session id
\* in use before the reset, the page continues with a fresh session id, and
\* once the request has reached the service that session is gone.
C28_ResetDeletesOldSession ==
    last_reset # None =>
        /\ last_reset[1].carried = last_reset[1].before
        /\ ui.session_id # last_reset[1].before
        /\ last_reset[1].reached => last_reset[1].before \notin DOMAIN service

====
